---- MODULE Spec2Model ----
(***************************************************************************)
(* Model of the UTXO snapshot engine of chi-migration                      *)
(* (src/tools/snapshot.py): normalisation of the CSV dump, the claim       *)
(* Merkle tree, the lookup indices, Merkle proofs and claim signing.       *)
(*                                                                         *)
(* Digests, pubkeyhashes and txids are integers of reduced width; the      *)
(* bytes comparison a < b of two equally long byte strings is the          *)
(* comparison of the integers they encode.  Python indices are 0-based     *)
(* and kept 0-based in every value the model stores; sequences are         *)
(* 1-based, so outputs[i] of the code is outputs[i + 1] here.              *)
(***************************************************************************)
EXTENDS Integers, Sequences, FiniteSets, TLC

\* ------------------------------------------------------------- bounds

\* Largest number of records in the CSV dump.
MaxRows == 3
\* Digests are the integers 0 .. DigestMod - 1 (32 bytes in the code).
DigestMod == 61
\* Width of one packed field of the leaf encoding.
PackWidth == 8
\* Largest number of records in a dump of standard outputs only.
MaxStandardRows == 5
\* Largest number of records of the dumps hashed on the worker pool.
MaxPoolRows == 3
\* Largest number of processes of the pool.
MaxProc == 2

\* ---------------------------------------------------------- sentinels

\* Python's None for an index result or the initial lastTxid.
None == -1
\* The address of a nonstandard output (addr = None).
NoAddress == "None"
\* An exception raised by an address or WIF decoder.
DecodeError == -2
\* The AssertionError of lookupOutput's loop.
AssertionFailed == -3
\* b"\0" * 32, the padding leaf.
ZeroDigest == 0
\* b"\0" * 20, the pubkeyhash of a nonstandard output.
ZeroPkh == 0

\* ------------------------------------------------------ input alphabet

Row(type, address, txid, vout, amount) ==
  [type |-> type, address |-> address, txid |-> txid, vout |-> vout,
   amount |-> amount]

\* The records a dump is drawn from: name outputs, standard outputs of the
\* three kinds (two of them sharing a pubkeyhash under different addresses,
\* one paying to the address of the all-zero hash), nonstandard outputs, and
\* records whose address does not decode under the decoder of their type.
InputRows ==
  { Row("name",   "CA",    "0x01", "0", "1"),
    Row("p2pkh",  "CA",    "0x01", "0", "1"),
    Row("p2pkh",  "CB",    "0x01", "1", "2"),
    Row("p2wpkh", "chi1a", "0x02", "0", "2"),
    Row("p2pk",   "CA",    "0x02", "1", "3"),
    Row("p2sh",   "sX",    "0x02", "0", "1"),
    Row("p2sh",   "sX",    "0x01", "1", "2"),
    Row("p2pkh",  "bad",   "0x01", "0", "1"),
    Row("p2pkh",  "C0",    "0x02", "1", "2"),
    Row("p2wpkh", "CA",    "0x02", "0", "1") }

\* Standard outputs with distinct outpoints, for the longer dumps.
StandardRows ==
  { Row("p2pkh",  "CA",    "0x01", "0", "1"),
    Row("p2pkh",  "CB",    "0x01", "1", "2"),
    Row("p2wpkh", "chi1a", "0x02", "0", "2") }

RECURSIVE SeqsUpTo(_, _)
SeqsUpTo(S, n) ==
  IF n = 0 THEN { <<>> }
  ELSE LET shorter == SeqsUpTo(S, n - 1)
       IN shorter \cup { Append(s, x) : s \in { t \in shorter : Len(t) = n - 1 },
                                        x \in S }

\* Arguments of the queries.
QueryTxids == {1, 2, 3}
QueryVouts == {0, 1}
QueryAddresses == {"CA", "chi1a", "sX", "C0"}
Wifs == {"wifA", "wifB", "wifC", "notwif"}
Recipient == "0xrecipient"
VerifyingContract == "0xcontract"
ChainId == 137

\* ------------------------------------------------- external libraries

\* Web3.to_bytes (hexstr=...)
ToBytes(hexstr) ==
  CASE hexstr = "0x01" -> 1
    [] hexstr = "0x02" -> 2
    [] hexstr = "0x03" -> 3

\* Web3.to_int (text=...)
ToInt(text) ==
  CASE text = "0" -> 0
    [] text = "1" -> 1
    [] text = "2" -> 2
    [] text = "3" -> 3

\* P2PKHAddrDecoder.DecodeAddr (address, net_ver=ADDRVER): the hash a
\* base58check address of version ADDRVER encodes, or an exception.
P2PKHDecodeAddr(address) ==
  CASE address = "CA" -> 1
    [] address = "CB" -> 2
    [] address = "C0" -> ZeroPkh
    [] OTHER -> DecodeError

\* P2WPKHAddrDecoder.DecodeAddr (address, hrp=HRP)
P2WPKHDecodeAddr(address) ==
  CASE address = "chi1a" -> 1
    [] OTHER -> DecodeError

\* Web3.keccak on the integer encoding of its input; never the zero digest.
Keccak(x) == 1 + (((x * 167 + 13) % 251) % (DigestMod - 1))

\* a + b of two digests (bytes concatenation).
Concat(a, b) == a * DigestMod + b

\* WifDecoder.Decode (wif, net_ver=WIFVER): the private key or an exception.
WifDecode(wif) ==
  CASE wif = "wifA" -> 11
    [] wif = "wifB" -> 12
    [] wif = "wifC" -> 13
    [] OTHER -> DecodeError

\* ripemd160 (sha256 (pubkey.format (compressed))) of the key's public key.
Hash160(privKey, compressed) ==
  CASE privKey = 11 -> IF compressed THEN 1 ELSE 3
    [] privKey = 12 -> IF compressed THEN 4 ELSE 2
    [] privKey = 13 -> IF compressed THEN 5 ELSE 6

\* pubkey.point ()
Point(privKey) == <<privKey * 2, privKey * 2 + 1>>

\* acc.sign_message (encode_structured_data (msg)).signature
SignTyped(privKey, txid, vout, recipient, contract, chainId) ==
  <<"sig", privKey, "ChiMigration", "1", chainId, contract, txid, vout,
    recipient>>

\* ------------------------------------------------------ snapshot.py

StandardTypes == {"p2pk", "p2pkh", "p2wpkh"}

\* processRow: the pubkeyhash of the row, or DecodeError.
rowPkh(row) ==
  IF row.type \in {"p2pk", "p2pkh"} THEN P2PKHDecodeAddr(row.address)
  ELSE IF row.type = "p2wpkh" THEN P2WPKHDecodeAddr(row.address)
  ELSE ZeroPkh

\* rowAddr keeping the address of every record.
rowAddrKept(row) == row.address

rowAddr(row) ==
  IF row.type \in {"p2pk", "p2pkh"} THEN row.address
  ELSE IF row.type = "p2wpkh" THEN row.address
  ELSE NoAddress

\* processRow raises when the decoder of the row's type raises.
processRowRaises(row) == rowPkh(row) = DecodeError

processRow(row) ==
  [txid |-> ToBytes(row.txid),
   vout |-> ToInt(row.vout),
   amount |-> ToInt(row.amount),
   pubkeyhash |-> rowPkh(row),
   address |-> rowAddr(row)]

computeLeafHash(output) ==
  Keccak(((output.txid * PackWidth + output.vout) * PackWidth + output.amount)
           * PackWidth + output.pubkeyhash)

\* hashPairs without the ordering of the pair.
hashPairsUnsorted(pair) == Keccak(Concat(pair[1], pair[2]))

hashPairs(pair) ==
  LET a == pair[1]
      b == pair[2]
  IN IF a < b THEN Keccak(Concat(a, b)) ELSE Keccak(Concat(b, a))

\* filterRows keeping the name records.
filterRowsKeepNames(inp) == inp

\* rows = [row for row in reader if row["type"] != "name"]
filterRows(inp) == SelectSeq(inp, LAMBDA row : row.type # "name")

\* mapProcessRow skipping the records that do not decode.
mapProcessRowSkipping(rs) ==
  LET good == SelectSeq(rs, LAMBDA row : ~ processRowRaises(row))
  IN [raised |-> FALSE, outputs |-> [i \in 1..Len(good) |-> processRow(good[i])]]

\* p.map (processRow, rows): the results in the order of rows, or the
\* exception of a task, which map re-raises.
mapProcessRow(rs) ==
  IF \E i \in 1..Len(rs) : processRowRaises(rs[i])
  THEN [raised |-> TRUE, outputs |-> <<>>]
  ELSE [raised |-> FALSE, outputs |-> [i \in 1..Len(rs) |-> processRow(rs[i])]]

RECURSIVE sumAmounts(_, _, _)
sumAmounts(outs, i, acc) ==
  IF i > Len(outs) THEN acc ELSE sumAmounts(outs, i + 1, acc + outs[i].amount)

\* nextPowerOfTwo doubling while p <= n.
RECURSIVE nextPowerOfTwoInclusive(_, _)
nextPowerOfTwoInclusive(p, n) ==
  IF p <= n THEN nextPowerOfTwoInclusive(2 * p, n) ELSE p

RECURSIVE nextPowerOfTwo(_, _)
nextPowerOfTwo(p, n) == IF p < n THEN nextPowerOfTwo(2 * p, n) ELSE p

padLeaves(leafHashes) ==
  LET n == nextPowerOfTwo(1, Len(leafHashes))
  IN [i \in 1..n |-> IF i <= Len(leafHashes) THEN leafHashes[i] ELSE ZeroDigest]

\* pairsOf stepping by one instead of two.
pairsOfOverlapping(lastLevel) ==
  [j \in 1..(Len(lastLevel) \div 2) |-> <<lastLevel[j], lastLevel[j + 1]>>]

pairsOf(lastLevel) ==
  [j \in 1..(Len(lastLevel) \div 2) |-> <<lastLevel[2 * j - 1], lastLevel[2 * j]>>]

RECURSIVE buildLevels(_)
buildLevels(lvls) ==
  LET lastLevel == lvls[Len(lvls)]
  IN IF Len(lastLevel) = 1 THEN lvls
     ELSE LET pairs == pairsOf(lastLevel)
          IN buildLevels(Append(lvls, [j \in 1..Len(pairs) |-> hashPairs(pairs[j])]))

buildMerkle(outs) ==
  buildLevels(<<padLeaves([i \in 1..Len(outs) |-> computeLeafHash(outs[i])])>>)

\* indexAppend replacing the list of the address.
indexAppendOverwriting(idx, address, ind) == (address :> <<ind>>) @@ idx

indexAppend(idx, address, ind) ==
  (address :> Append(IF address \in DOMAIN idx THEN idx[address] ELSE <<>>, ind))
    @@ idx

RECURSIVE buildIndices(_, _, _, _, _)
buildIndices(outs, i, lastTxid, idxTxid, idxAddress) ==
  IF i > Len(outs)
  THEN [indexTxid |-> idxTxid, indexAddress |-> idxAddress]
  ELSE LET o == outs[i]
           newTxid == IF o.txid # lastTxid
                      THEN (o.txid :> (i - 1)) @@ idxTxid
                      ELSE idxTxid
           newAddress == IF o.address # NoAddress
                         THEN indexAppend(idxAddress, o.address, i - 1)
                         ELSE idxAddress
       IN buildIndices(outs, i + 1, o.txid, newTxid, newAddress)

\* lookupScan that does not stop at the first output of another txid.
RECURSIVE lookupScanNoStop(_, _, _, _)
lookupScanNoStop(outs, ind, txid, vout) ==
  IF outs[ind + 1].vout = vout THEN ind
  ELSE IF ind + 1 >= Len(outs) THEN None
  ELSE lookupScanNoStop(outs, ind + 1, txid, vout)

RECURSIVE lookupScan(_, _, _, _)
lookupScan(outs, ind, txid, vout) ==
  IF outs[ind + 1].txid # txid THEN AssertionFailed
  ELSE IF outs[ind + 1].vout = vout THEN ind
  ELSE IF ind + 1 >= Len(outs) THEN None
  ELSE IF outs[ind + 2].txid # txid THEN None
  ELSE lookupScan(outs, ind + 1, txid, vout)

\* lookupOutput scanning from the first output instead of indexTxid[txid].
lookupOutputFromStart(outs, idxTxid, txid, vout) ==
  IF txid \notin DOMAIN idxTxid THEN None
  ELSE lookupScan(outs, 0, txid, vout)

lookupOutput(outs, idxTxid, txid, vout) ==
  IF txid \notin DOMAIN idxTxid THEN None
  ELSE lookupScan(outs, idxTxid[txid], txid, vout)

lookupAddress(idxAddress, addr) ==
  IF addr \in DOMAIN idxAddress THEN idxAddress[addr] ELSE <<>>

RECURSIVE getProofFrom(_, _, _)
getProofFrom(lvls, k, index) ==
  IF k >= Len(lvls) THEN <<>>
  ELSE <<IF index % 2 = 0 THEN lvls[k][index + 2] ELSE lvls[k][index]>>
         \o getProofFrom(lvls, k + 1, index \div 2)

getProof(lvls, index) == getProofFrom(lvls, 1, index)

\* keyMatches comparing the compressed serialisation only.
keyMatchesCompressedOnly(privKey, o) == Hash160(privKey, TRUE) = o.pubkeyhash

\* The check of lines 250-259: some serialisation hashes to the pubkeyhash.
keyMatches(privKey, o) ==
  \E compressed \in {TRUE, FALSE} : Hash160(privKey, compressed) = o.pubkeyhash

signClaim(outs, index, wif, recipient, verifyingContract, chainId) ==
  LET privKey == WifDecode(wif)
  IN IF privKey = DecodeError
     THEN [kind |-> "raise", error |-> "WifDecodeError"]
     ELSE IF index >= Len(outs)
     THEN [kind |-> "raise", error |-> "IndexError"]
     ELSE LET o == outs[index + 1]
          IN IF ~ keyMatches(privKey, o)
             THEN [kind |-> "raise", error |-> "RuntimeError"]
             ELSE [kind |-> "return",
                   x |-> Point(privKey)[1],
                   y |-> Point(privKey)[2],
                   signature |-> SignTyped(privKey, o.txid, o.vout, recipient,
                                           verifyingContract, chainId)]

\* ------------------------------------------------------------- state

VARIABLES
  inp,           \* the records of the CSV dump, in file order
  pc,            \* position of UtxoSet.__init__, "ready" once constructed
  rows,          \* __init__'s local list of the records kept
  outputs,       \* self.outputs
  total,         \* self.total
  levels,        \* self.levels
  root,          \* self.root
  indexTxid,     \* self.indexTxid
  indexAddress,  \* self.indexAddress
  last,          \* the last query made of the snapshot and what it returned
  pool,          \* buildMerkle's worker pool: its size, the tasks of the map
                 \* call in progress and the position of buildMerkle
  app            \* the last request the frontend handled and its outcome

vars == <<inp, pc, rows, outputs, total, levels, root, indexTxid,
          indexAddress, last, pool, app>>

snapshot == <<outputs, total, levels, root, indexTxid, indexAddress>>

NoQuery == [op |-> "none"]

\* No pool is open.
PoolIdle == [stage |-> "idle", nproc |-> 0, tasks |-> <<>>]

\* The frontend has handled no request.
AppIdle == [op |-> "none"]

Init ==
  /\ inp \in SeqsUpTo(InputRows, MaxRows) \cup SeqsUpTo(StandardRows, MaxStandardRows)
  /\ pc = "start"
  /\ rows = <<>>
  /\ outputs = <<>>
  /\ total = 0
  /\ levels = <<>>
  /\ root = None
  /\ indexTxid = <<>>
  /\ indexAddress = <<>>
  /\ last = NoQuery
  /\ pool = PoolIdle
  /\ app = AppIdle

\* __init__, lines 101-102: read the dump and drop the name outputs.
ReadRows ==
  /\ pc = "start"
  /\ rows' = filterRows(inp)
  /\ pc' = "map"
  /\ UNCHANGED <<inp, outputs, total, levels, root, indexTxid, indexAddress, last, pool, app>>

\* __init__, lines 104-108: the pool maps processRow over the rows; an
\* exception of a task is re-raised by map and leaves __init__.
MapRows ==
  /\ pc = "map"
  /\ LET mapped == mapProcessRow(rows)
     IN IF mapped.raised
        THEN /\ pc' = "failed"
             /\ UNCHANGED outputs
        ELSE /\ outputs' = mapped.outputs
             /\ pc' = "total"
  /\ UNCHANGED <<inp, rows, total, levels, root, indexTxid, indexAddress, last, pool, app>>

\* __init__, lines 111-113.
ComputeTotal ==
  /\ pc = "total"
  /\ total' = sumAmounts(outputs, 1, 0)
  /\ pc' = "merkle"
  /\ UNCHANGED <<inp, rows, outputs, levels, root, indexTxid, indexAddress, last, pool, app>>

\* buildMerkle, lines 121-155.
BuildMerkle ==
  /\ pc = "merkle"
  /\ levels' = buildMerkle(outputs)
  /\ root' = levels'[Len(levels')][1]
  /\ pc' = "indices"
  /\ UNCHANGED <<inp, rows, outputs, total, indexTxid, indexAddress, last, pool, app>>

\* buildIndices, lines 157-181.
BuildIndices ==
  /\ pc = "indices"
  /\ LET idx == buildIndices(outputs, 1, None, <<>>, <<>>)
     IN /\ indexTxid' = idx.indexTxid
        /\ indexAddress' = idx.indexAddress
  /\ pc' = "ready"
  /\ UNCHANGED <<inp, rows, outputs, total, levels, root, last, pool, app>>

LookupOutput ==
  /\ pc = "ready"
  /\ \E txid \in QueryTxids, vout \in QueryVouts :
       last' = [op |-> "lookupOutput", txid |-> txid, vout |-> vout,
                ret |-> lookupOutput(outputs, indexTxid, txid, vout)]
  /\ UNCHANGED <<inp, pc, rows, snapshot, pool, app>>

\* LookupAddress storing an empty list for an address it does not find.
LookupAddressInserting ==
  /\ pc = "ready"
  /\ \E addr \in QueryAddresses :
       /\ last' = [op |-> "lookupAddress", addr |-> addr,
                   ret |-> lookupAddress(indexAddress, addr)]
       /\ indexAddress' = IF addr \in DOMAIN indexAddress
                          THEN indexAddress
                          ELSE (addr :> <<>>) @@ indexAddress
  /\ UNCHANGED <<inp, pc, rows, outputs, total, levels, root, indexTxid, pool, app>>

LookupAddress ==
  /\ pc = "ready"
  /\ \E addr \in QueryAddresses :
       last' = [op |-> "lookupAddress", addr |-> addr,
                ret |-> lookupAddress(indexAddress, addr)]
  /\ UNCHANGED <<inp, pc, rows, snapshot, pool, app>>

GetProof ==
  /\ pc = "ready"
  /\ \E index \in 0..(Len(levels[1]) - 1) :
       last' = [op |-> "getProof", index |-> index,
                ret |-> getProof(levels, index)]
  /\ UNCHANGED <<inp, pc, rows, snapshot, pool, app>>

SignClaim ==
  /\ pc = "ready"
  /\ \E index \in 0..Len(outputs), wif \in Wifs :
       last' = [op |-> "signClaim", index |-> index, wif |-> wif,
                ret |-> signClaim(outputs, index, wif, Recipient,
                                  VerifyingContract, ChainId)]
  /\ UNCHANGED <<inp, pc, rows, snapshot, pool, app>>

Next ==
  \/ ReadRows
  \/ MapRows
  \/ ComputeTotal
  \/ BuildMerkle
  \/ BuildIndices
  \/ LookupOutput
  \/ LookupAddress
  \/ GetProof
  \/ SignClaim

Spec == Init /\ [][Next]_vars

\* --------------------------------------- buildMerkle on the worker pool

\* mapReady not waiting for the tasks the workers are still executing.
mapReadyDispatched(tasks) == \A i \in 1..Len(tasks) : tasks[i].st # "queued"

\* p.map has every result: map blocks until all its tasks are done.
mapReady(tasks) == \A i \in 1..Len(tasks) : tasks[i].st = "done"

\* The list p.map returns: the results in the order of the arguments.
mapResults(tasks) == [i \in 1..Len(tasks) |-> tasks[i].res]

\* The tasks of p.map (f, args), none of them taken by a worker yet.
mapSubmit(args) ==
  [i \in 1..Len(args) |-> [st |-> "queued", arg |-> args[i], res |-> None]]

\* The number of tasks a worker is executing.
Running(tasks) == Cardinality({ i \in 1..Len(tasks) : tasks[i].st = "running" })

\* buildMerkle is entered with the outputs of a dump stored and a pool of
\* NUMPROC processes (None: the number of processors) about to be opened.
InitPool ==
  /\ inp \in SeqsUpTo(StandardRows, MaxPoolRows)
  /\ rows = filterRows(inp)
  /\ outputs = mapProcessRow(rows).outputs
  /\ total = sumAmounts(outputs, 1, 0)
  /\ pc = "merkle"
  /\ levels = <<>>
  /\ root = None
  /\ indexTxid = <<>>
  /\ indexAddress = <<>>
  /\ last = NoQuery
  /\ pool \in { [stage |-> "start", nproc |-> n, tasks |-> <<>>] : n \in 1..MaxProc }
  /\ app = AppIdle

\* Lines 132-133: p.map (computeLeafHash, self.outputs) hands out its tasks.
PoolSubmitLeaves ==
  /\ pool.stage = "start"
  /\ pool' = [pool EXCEPT !.stage = "leaves", !.tasks = mapSubmit(outputs)]
  /\ UNCHANGED <<inp, pc, rows, snapshot, last, app>>

\* A free worker takes a task of the map call in progress.
PoolStartTask ==
  /\ pool.stage \in {"leaves", "pairs"}
  /\ Running(pool.tasks) < pool.nproc
  /\ \E i \in 1..Len(pool.tasks) :
       /\ pool.tasks[i].st = "queued"
       /\ pool' = [pool EXCEPT !.tasks[i].st = "running"]
  /\ UNCHANGED <<inp, pc, rows, snapshot, last, app>>

\* A worker finishes its task: computeLeafHash or hashPairs of the argument.
PoolFinishTask ==
  /\ pool.stage \in {"leaves", "pairs"}
  /\ \E i \in 1..Len(pool.tasks) :
       /\ pool.tasks[i].st = "running"
       /\ pool' = [pool EXCEPT
                     !.tasks[i].st = "done",
                     !.tasks[i].res = IF pool.stage = "leaves"
                                      THEN computeLeafHash(pool.tasks[i].arg)
                                      ELSE hashPairs(pool.tasks[i].arg)]
  /\ UNCHANGED <<inp, pc, rows, snapshot, last, app>>

\* Lines 133-141: the map of the leaves returns; the leaves are padded and
\* become the first level.
PoolLeavesReturn ==
  /\ pool.stage = "leaves"
  /\ mapReady(pool.tasks)
  /\ levels' = <<padLeaves(mapResults(pool.tasks))>>
  /\ pool' = [pool EXCEPT !.stage = "loop"]
  /\ UNCHANGED <<inp, pc, rows, outputs, total, root, indexTxid, indexAddress,
                 last, app>>

\* Lines 144-152 and 155: the loop ends at a level of one element, whose
\* element becomes the root, or p.map (hashPairs, pairs) hands out the tasks
\* of the next level.
PoolLoop ==
  /\ pool.stage = "loop"
  /\ LET lastLevel == levels[Len(levels)]
     IN IF Len(lastLevel) = 1
        THEN /\ root' = lastLevel[1]
             /\ pc' = "indices"
             /\ pool' = [pool EXCEPT !.stage = "closed", !.tasks = <<>>]
        ELSE /\ pool' = [pool EXCEPT !.stage = "pairs",
                                     !.tasks = mapSubmit(pairsOf(lastLevel))]
             /\ UNCHANGED <<pc, root>>
  /\ UNCHANGED <<inp, rows, outputs, total, levels, indexTxid, indexAddress,
                 last, app>>

\* Lines 152-153: the map of the pairs returns and its results are appended
\* as the next level.
PoolPairsReturn ==
  /\ pool.stage = "pairs"
  /\ mapReady(pool.tasks)
  /\ levels' = Append(levels, mapResults(pool.tasks))
  /\ pool' = [pool EXCEPT !.stage = "loop"]
  /\ UNCHANGED <<inp, pc, rows, outputs, total, root, indexTxid, indexAddress,
                 last, app>>

NextPool ==
  \/ PoolSubmitLeaves
  \/ PoolStartTask
  \/ PoolFinishTask
  \/ PoolLeavesReturn
  \/ PoolLoop
  \/ PoolPairsReturn

SpecPool == InitPool /\ [][NextPool]_vars

\* ------------------------------------------------------ frontend/app.py

\* BATCH_SIZE (500 in the code), scaled down so that a list of a few outputs
\* spans several batches.
BATCH_SIZE == 2
\* MAX_OUTPUTS (2000 in the code), scaled down likewise.
MAX_OUTPUTS == 3

\* The address the contract reports for an output nobody claimed.
UnclaimedAddress == "0x0000000000000000000000000000000000000000"
\* The address the contract reports for a claimed output.
ClaimerAddress == "0xclaimer"

\* The key of an output in the result of batch_check_claimed.
utxoKey(output) == <<output.txid, output.vout>>

\* output_list[i:i + BATCH_SIZE], i 0-based.
batchAt(output_list, i) ==
  SubSeq(output_list, i + 1,
         IF i + BATCH_SIZE < Len(output_list) THEN i + BATCH_SIZE
         ELSE Len(output_list))

\* Lines 96-99: the claimed status of every output of the batch is stored.
RECURSIVE recordBatch(_, _, _, _)
recordBatch(batch, claimed_addresses, j, result) ==
  IF j > Len(batch) THEN result
  ELSE recordBatch(batch, claimed_addresses, j + 1,
                   (utxoKey(batch[j]) :> (claimed_addresses[j] # UnclaimedAddress))
                     @@ result)

\* Lines 81-101: the loop over the batches. The k-th batchCheckClaimed call
\* answers responses[k]: it raises or returns one address per output. An
\* exception of the call leaves the function, whose result dictionary is a
\* local variable.
RECURSIVE batchLoop(_, _, _, _, _)
batchLoop(output_list, i, responses, k, result) ==
  IF i >= Len(output_list)
  THEN [kind |-> "return", result |-> result, calls |-> k - 1]
  ELSE IF responses[k].raises
  THEN [kind |-> "raise", error |-> "ContractCallError", calls |-> k]
  ELSE batchLoop(output_list, i + BATCH_SIZE, responses, k + 1,
                 recordBatch(batchAt(output_list, i), responses[k].addresses,
                             1, result))

\* batch_check_claimed; migration_contract is set before the app is served.
batch_check_claimed(output_list, responses) ==
  batchLoop(output_list, 0, responses, 1, <<>>)

\* The answers the contract can give to one batchCheckClaimed call.
CallAnswers(n) ==
  { [raises |-> TRUE, addresses |-> <<>>] }
    \cup { [raises |-> FALSE, addresses |-> a] :
             a \in [1..n -> {UnclaimedAddress, ClaimerAddress}] }

\* The answers to the calls of batch_check_claimed (output_list), batch by
\* batch.
RECURSIVE ResponsesFrom(_, _)
ResponsesFrom(output_list, i) ==
  IF i >= Len(output_list) THEN { <<>> }
  ELSE { <<first>> \o rest :
           first \in CallAnswers(Len(batchAt(output_list, i))),
           rest \in ResponsesFrom(output_list, i + BATCH_SIZE) }

\* Lines 133-135: the outputs at the indices, in the order of the indices.
outputsAt(outs, output_indices) ==
  [n \in 1..Len(output_indices) |-> outs[output_indices[n] + 1]]

\* claim_status.get (key, False)
statusGet(claim_status, key) ==
  IF key \in DOMAIN claim_status THEN claim_status[key] ELSE FALSE

RECURSIVE sumClaims(_, _, _)
sumClaims(claims, n, claimed) ==
  IF n > Len(claims) THEN 0
  ELSE (IF claims[n].claimed = claimed THEN claims[n].amount ELSE 0)
         + sumClaims(claims, n + 1, claimed)

\* airdrop_claims for a POST request, lines 115-191. Reading a key that a
\* record does not have raises KeyError; no exception is caught.
airdrop_claims(outs, idxAddress, address, responses) ==
  LET output_indices == lookupAddress(idxAddress, address)
  IN IF output_indices # <<>> /\ Len(output_indices) > MAX_OUTPUTS
     THEN [kind |-> "page", too_many_outputs |-> TRUE,
           output_count |-> Len(output_indices), claims |-> <<>>]
     ELSE IF /\ output_indices # <<>>
             /\ "nonstandard" \notin DOMAIN outs[output_indices[1] + 1]
     THEN [kind |-> "raise", error |-> "KeyError"]
     ELSE LET has_nonstandard ==
                output_indices # <<>> /\ outs[output_indices[1] + 1].nonstandard
              outputs_to_check == outputsAt(outs, output_indices)
              checked == IF outputs_to_check # <<>>
                         THEN batch_check_claimed(outputs_to_check, responses)
                         ELSE [kind |-> "return", result |-> <<>>, calls |-> 0]
          IN IF checked.kind = "raise"
             THEN [kind |-> "raise", error |-> checked.error]
             ELSE IF \E n \in 1..Len(outputs_to_check) :
                       "nonstandard" \notin DOMAIN outputs_to_check[n]
             THEN [kind |-> "raise", error |-> "KeyError"]
             ELSE LET claims ==
                        [n \in 1..Len(outputs_to_check) |->
                           [txid |-> outputs_to_check[n].txid,
                            vout |-> outputs_to_check[n].vout,
                            amount |-> outputs_to_check[n].amount,
                            claimed |-> statusGet(checked.result,
                                                  utxoKey(outputs_to_check[n])),
                            nonstandard |-> outputs_to_check[n].nonstandard]]
                  IN [kind |-> "page", too_many_outputs |-> FALSE,
                      output_count |-> 0, claims |-> claims,
                      has_nonstandard |-> has_nonstandard,
                      total_claimable |-> sumClaims(claims, 1, FALSE),
                      total_claimed |-> sumClaims(claims, 1, TRUE),
                      no_claims_found |-> (Len(claims) = 0)]

\* The dumps whose snapshot can be built.
BuildableDumps ==
  { s \in SeqsUpTo(InputRows, MaxRows) \cup SeqsUpTo(StandardRows, MaxStandardRows) :
      ~ mapProcessRow(filterRows(s)).raised }

\* The frontend is started with the pickled snapshot of a dump loaded
\* (load_utxo_data) and the contract connected.
InitApp ==
  /\ inp \in BuildableDumps
  /\ rows = filterRows(inp)
  /\ outputs = mapProcessRow(rows).outputs
  /\ total = sumAmounts(outputs, 1, 0)
  /\ levels = buildMerkle(outputs)
  /\ root = levels[Len(levels)][1]
  /\ indexTxid = buildIndices(outputs, 1, None, <<>>, <<>>).indexTxid
  /\ indexAddress = buildIndices(outputs, 1, None, <<>>, <<>>).indexAddress
  /\ pc = "ready"
  /\ last = NoQuery
  /\ pool = PoolIdle
  /\ app = AppIdle

\* A POST request to '/' with an address in the form.
AirdropPost ==
  /\ pc = "ready"
  /\ \E address \in QueryAddresses :
       \E responses \in ResponsesFrom(
                          outputsAt(outputs, lookupAddress(indexAddress, address)), 0) :
         app' = [op |-> "airdrop_claims", address |-> address,
                 response |-> airdrop_claims(outputs, indexAddress, address,
                                             responses)]
  /\ UNCHANGED <<inp, pc, rows, snapshot, last, pool>>

\* batch_check_claimed called as at lines 138-140, with the outputs of an
\* address as outputs_to_check: claim_status is {} until the call returns,
\* and an exception of the call ends the handler.
BatchCheckClaimed ==
  /\ pc = "ready"
  /\ \E address \in QueryAddresses :
       LET outputs_to_check == outputsAt(outputs, lookupAddress(indexAddress, address))
       IN /\ outputs_to_check # <<>>
          /\ \E responses \in ResponsesFrom(outputs_to_check, 0) :
               LET ret == batch_check_claimed(outputs_to_check, responses)
               IN app' = [op |-> "batch_check_claimed",
                          output_list |-> outputs_to_check,
                          responses |-> responses,
                          ret |-> ret,
                          claim_status |-> IF ret.kind = "return"
                                           THEN ret.result
                                           ELSE <<>>]
  /\ UNCHANGED <<inp, pc, rows, snapshot, last, pool>>

NextApp ==
  \/ AirdropPost
  \/ BatchCheckClaimed

SpecApp == InitApp /\ [][NextApp]_vars

\* ------------------------------------------------------------ claims

\* The pair rule of the proof verifier: the hash of the smaller digest
\* followed by the larger.
SortedPairHash(a, b) ==
  IF a <= b THEN Keccak(a * DigestMod + b) ELSE Keccak(b * DigestMod + a)

RECURSIVE ProcessProof(_, _)
ProcessProof(computed, proof) ==
  IF proof = <<>> THEN computed
  ELSE ProcessProof(SortedPairHash(computed, Head(proof)), Tail(proof))

\* The Merkle tree is built.
MerkleBuilt == pc \in {"indices", "ready"}

\* C1: for every index i of outputs, combining the leaf digest of outputs[i]
\* in order with the elements of getProof(i) under the sorted-pair rule gives
\* root; so does the proof a getProof query returned.
C1_ProofReproducesRoot ==
  /\ pc = "ready" =>
       \A i \in 0..(Len(outputs) - 1) :
         ProcessProof(computeLeafHash(outputs[i + 1]), getProof(levels, i)) = root
  /\ (last.op = "getProof" /\ last.index < Len(outputs)) =>
       ProcessProof(computeLeafHash(outputs[last.index + 1]), last.ret) = root

\* A proof of three elements was returned for the last of five outputs, whose
\* sibling is a padding leaf, in a tree with a pair that is not in sorted
\* order.
C1_Witness ==
  /\ last.op = "getProof"
  /\ Len(outputs) = 5
  /\ last.index = 4
  /\ Len(last.ret) = 3
  /\ last.ret[1] = ZeroDigest
  /\ last.ret[3] = levels[3][1]
  /\ levels[1][1] > levels[1][2]
  /\ ProcessProof(computeLeafHash(outputs[5]), last.ret) = root

RECURSIVE IsPowerOfTwo(_)
IsPowerOfTwo(n) == n = 1 \/ (n > 1 /\ n % 2 = 0 /\ IsPowerOfTwo(n \div 2))

\* C2: len(levels[0]) is the smallest power of two >= len(outputs), 1 for no
\* outputs; levels[0][i] is the leaf digest of outputs[i] for i < len(outputs)
\* and the zero digest from len(outputs) on.
C2_LeafLevelPadded ==
  MerkleBuilt =>
    LET n == Len(levels[1])
    IN /\ IsPowerOfTwo(n)
       /\ n >= Len(outputs)
       /\ n = 1 \/ n \div 2 < Len(outputs)
       /\ Len(outputs) = 0 => n = 1
       /\ \A i \in 1..n :
            levels[1][i] = IF i <= Len(outputs)
                           THEN computeLeafHash(outputs[i])
                           ELSE ZeroDigest

\* Five outputs are padded to eight leaves by three zero digests.
C2_Witness ==
  /\ pc = "ready"
  /\ Len(outputs) = 5
  /\ Len(levels[1]) = 8
  /\ levels[1][5] # ZeroDigest
  /\ \A i \in 6..8 : levels[1][i] = ZeroDigest

\* C3: each level has half the length of the one before it and holds the
\* sorted-pair hashes of that level's adjacent pairs; the last level has one
\* element, the root; with no outputs there is one level and the root is the
\* zero digest.
C3_LevelsHalveToRoot ==
  MerkleBuilt =>
    /\ Len(levels) >= 1
    /\ \A k \in 1..(Len(levels) - 1) :
         /\ 2 * Len(levels[k + 1]) = Len(levels[k])
         /\ \A j \in 1..Len(levels[k + 1]) :
              levels[k + 1][j] = SortedPairHash(levels[k][2 * j - 1], levels[k][2 * j])
    /\ Len(levels[Len(levels)]) = 1
    /\ root = levels[Len(levels)][1]
    /\ Len(outputs) = 0 => (Len(levels) = 1 /\ root = ZeroDigest)

\* A tree of four levels whose second pair of leaves differs from the pair
\* starting one leaf earlier and whose first pair is not in sorted order.
C3_Witness ==
  /\ pc = "ready"
  /\ Len(levels) = 4
  /\ Len(levels[1]) = 8
  /\ Len(levels[3]) = 2
  /\ levels[1][1] > levels[1][2]
  /\ levels[1][2] # levels[1][3]
  /\ levels[2][1] = SortedPairHash(levels[1][1], levels[1][2])
  /\ root = SortedPairHash(levels[3][1], levels[3][2])

\* The txids of the outputs.
OutputTxids == { outputs[i].txid : i \in 1..Len(outputs) }

\* The (0-based) index of the first output with this txid.
FirstIndexOf(txid) ==
  CHOOSE i \in 0..(Len(outputs) - 1) :
    /\ outputs[i + 1].txid = txid
    /\ \A j \in 0..(i - 1) : outputs[j + 1].txid # txid

\* C4: indexTxid maps every txid of outputs to the index of the first output
\* with this txid.
C4_IndexTxidIsFirst ==
  pc = "ready" =>
    \A txid \in OutputTxids :
      /\ txid \in DOMAIN indexTxid
      /\ indexTxid[txid] = FirstIndexOf(txid)

\* The outputs of every txid are adjacent.
Grouped ==
  \A i, j, k \in 1..Len(outputs) :
    (i < j /\ j < k /\ outputs[i].txid = outputs[k].txid) =>
      outputs[j].txid = outputs[i].txid

\* No two outputs share (txid, vout).
UniqueOutpoints ==
  \A i, j \in 1..Len(outputs) :
    (outputs[i].txid = outputs[j].txid /\ outputs[i].vout = outputs[j].vout) => i = j

\* The indices of the outputs with this (txid, vout).
Matching(txid, vout) ==
  { i \in 0..(Len(outputs) - 1) :
      outputs[i + 1].txid = txid /\ outputs[i + 1].vout = vout }

\* C5: with outputs grouped by txid and (txid, vout) unique, lookupOutput
\* returns the index of the output with this (txid, vout), and None when the
\* txid is absent or no output of the txid has the vout.
C5_LookupOutputGrouped ==
  (last.op = "lookupOutput" /\ Grouped /\ UniqueOutpoints) =>
    IF Matching(last.txid, last.vout) = {}
    THEN last.ret = None
    ELSE last.ret \in Matching(last.txid, last.vout)

\* The lookup scanned past the first output of its txid and found the vout
\* in a grouped snapshot that holds another txid too.
C5_Witness ==
  /\ last.op = "lookupOutput"
  /\ Grouped
  /\ UniqueOutpoints
  /\ Len(outputs) = 3
  /\ OutputTxids = {1, 2}
  /\ last.ret >= 0
  /\ last.ret # indexTxid[last.txid]

\* C6: signClaim raises the key-mismatch error, returning neither
\* coordinates nor a signature, whenever neither serialisation of the key's
\* public key hashes to outputs[index].pubkeyhash; it returns (x, y,
\* signature) when, and only when, one of the two does.
C6_SignClaimKeyMismatch ==
  (/\ last.op = "signClaim"
   /\ last.index < Len(outputs)
   /\ WifDecode(last.wif) # DecodeError) =>
    LET key == WifDecode(last.wif)
        pkh == outputs[last.index + 1].pubkeyhash
        matches == Hash160(key, TRUE) = pkh \/ Hash160(key, FALSE) = pkh
    IN IF matches
       THEN /\ last.ret.kind = "return"
            /\ DOMAIN last.ret = {"kind", "x", "y", "signature"}
       ELSE /\ last.ret.kind = "raise"
            /\ last.ret.error = "RuntimeError"
            /\ DOMAIN last.ret = {"kind", "error"}

\* A valid key was refused for a standard output it does not control.
C6_Witness ==
  /\ last.op = "signClaim"
  /\ last.index < Len(outputs)
  /\ WifDecode(last.wif) # DecodeError
  /\ outputs[last.index + 1].address # NoAddress
  /\ outputs[last.index + 1].pubkeyhash # ZeroPkh
  /\ last.ret.kind = "raise"
  /\ last.ret.error = "RuntimeError"

\* A record kept by the filter whose address its decoder rejects.
BadRecordKept ==
  \E p \in 1..Len(inp) : inp[p].type # "name" /\ processRowRaises(inp[p])

\* The records that are kept and decode, in input order.
DecodableRows ==
  SelectSeq(inp, LAMBDA row : row.type # "name" /\ ~ processRowRaises(row))

\* C7 as stated: a record of a standard type whose address fails to decode is
\* excluded alone; ingestion goes on and outputs holds the other records.
C7_DecodeErrorExcludesRecordOnly ==
  (BadRecordKept /\ pc \notin {"start", "map"}) =>
    /\ pc # "failed"
    /\ outputs = [i \in 1..Len(DecodableRows) |-> processRow(DecodableRows[i])]

\* C7 amended: a record of a standard type whose address fails to decode
\* aborts the construction: processRow's exception leaves __init__, no
\* output is stored and no total, tree or index is built; the construction
\* fails for no other reason.
C7_DecodeErrorAbortsConstruction ==
  /\ (BadRecordKept /\ pc \notin {"start", "map"}) =>
       /\ pc = "failed"
       /\ outputs = <<>>
       /\ total = 0
       /\ levels = <<>>
       /\ root = None
       /\ indexTxid = <<>>
       /\ indexAddress = <<>>
  /\ pc = "failed" => BadRecordKept

\* The construction was aborted by one record although another record of the
\* dump is standard and decodes.
C7_Witness ==
  /\ pc = "failed"
  /\ Len(rows) = 3
  /\ Len(DecodableRows) = 2
  /\ \E i \in 1..Len(DecodableRows) : DecodableRows[i].type \in StandardTypes
  /\ outputs = <<>>

\* The (0-based) indices of the outputs with this address.
IndicesOf(addr) == { i \in 0..(Len(outputs) - 1) : outputs[i + 1].address = addr }

\* A list that holds exactly the elements of S in ascending order.
IsAscendingListOf(lst, S) ==
  /\ Len(lst) = Cardinality(S)
  /\ { lst[n] : n \in 1..Len(lst) } = S
  /\ \A n \in 1..(Len(lst) - 1) : lst[n] < lst[n + 1]

\* Every address string of the dump and of the queries.
AllAddresses == QueryAddresses \cup { r.address : r \in InputRows }

\* C8: for every address, indexAddress (and lookupAddress) gives exactly the
\* indices of the outputs with this address in ascending order without
\* repetition; nonstandard outputs are in no list; an address without
\* outputs gives the empty list.
C8_IndexAddressExact ==
  /\ pc = "ready" =>
       /\ \A addr \in AllAddresses :
            IsAscendingListOf(lookupAddress(indexAddress, addr), IndicesOf(addr))
       /\ NoAddress \notin DOMAIN indexAddress
       /\ \A addr \in DOMAIN indexAddress :
            /\ indexAddress[addr] # <<>>
            /\ IsAscendingListOf(indexAddress[addr], IndicesOf(addr))
  /\ last.op = "lookupAddress" =>
       IsAscendingListOf(last.ret, IndicesOf(last.addr))

\* An address with two outputs that are not adjacent was looked up in a
\* snapshot that holds a nonstandard output between them.
C8_Witness ==
  /\ last.op = "lookupAddress"
  /\ last.ret = <<0, 2>>
  /\ outputs[2].address = NoAddress
  /\ rows[2].address = "sX"
  /\ lookupAddress(indexAddress, "sX") = <<>>

\* The positions of the input records that are not name records.
NonNamePositions == { p \in 1..Len(inp) : inp[p].type # "name" }

\* The number of non-name records up to position p.
Rank(p) == Cardinality({ q \in NonNamePositions : q <= p })

RECURSIVE SumAmountOver(_)
SumAmountOver(P) ==
  IF P = {} THEN 0
  ELSE LET p == CHOOSE q \in P : TRUE
       IN ToInt(inp[p].amount) + SumAmountOver(P \ {p})

\* C9: outputs is the normalised image of the input records that are not of
\* type "name", in input order; no name record enters outputs; total is the
\* sum of the amounts of exactly these records.
C9_OutputsAreFilteredInput ==
  /\ pc \in {"total", "merkle", "indices", "ready"} =>
       /\ Len(outputs) = Cardinality(NonNamePositions)
       /\ \A p \in NonNamePositions :
            /\ outputs[Rank(p)].txid = ToBytes(inp[p].txid)
            /\ outputs[Rank(p)].vout = ToInt(inp[p].vout)
            /\ outputs[Rank(p)].amount = ToInt(inp[p].amount)
            /\ outputs[Rank(p)] = processRow(inp[p])
  /\ pc \in {"merkle", "indices", "ready"} =>
       total = SumAmountOver(NonNamePositions)

\* A snapshot was built from a dump with a name record between two others.
C9_Witness ==
  /\ pc = "ready"
  /\ Len(inp) = 3
  /\ inp[2].type = "name"
  /\ Len(outputs) = 2
  /\ outputs[1] # outputs[2]
  /\ total = outputs[1].amount + outputs[2].amount
  /\ total = 5

\* The outputs are stored.
OutputsStored == pc \in {"total", "merkle", "indices", "ready"}

\* C10 as stated: pubkeyhash is all-zero if and only if the output is
\* nonstandard, and address is present if and only if it is standard.
C10_ZeroPkhIffNonstandard ==
  OutputsStored =>
    \A i \in 1..Len(outputs) :
      /\ outputs[i].pubkeyhash = ZeroPkh <=> rows[i].type \notin StandardTypes
      /\ outputs[i].address # NoAddress <=> rows[i].type \in StandardTypes

\* C10 amended: pubkeyhash is all-zero if the output is nonstandard (a
\* standard output has the hash its address encodes, which is all-zero for
\* the address of the all-zero hash), and address is present if and only if
\* the output is standard.
C10_NonstandardHasZeroPkh ==
  OutputsStored =>
    \A i \in 1..Len(outputs) :
      /\ rows[i].type \notin StandardTypes => outputs[i].pubkeyhash = ZeroPkh
      /\ outputs[i].address # NoAddress <=> rows[i].type \in StandardTypes
      /\ rows[i].type \in StandardTypes => outputs[i].address = rows[i].address

\* The snapshot holds a nonstandard output, a standard output with a
\* non-zero pubkeyhash and a standard output whose address encodes the
\* all-zero hash.
C10_Witness ==
  /\ pc = "ready"
  /\ Len(outputs) = 3
  /\ rows[1].type \notin StandardTypes /\ outputs[1].pubkeyhash = ZeroPkh
  /\ outputs[1].address = NoAddress /\ rows[1].address # NoAddress
  /\ rows[2].type \in StandardTypes /\ outputs[2].pubkeyhash # ZeroPkh
  /\ rows[3].type \in StandardTypes /\ outputs[3].pubkeyhash = ZeroPkh
  /\ outputs[3].address = "C0"

\* C11: once the snapshot is constructed, no step (a lookupOutput,
\* lookupAddress, getProof or signClaim query, returning or raising) changes
\* outputs, total, levels, root, indexTxid or indexAddress.
C11_QueriesLeaveSnapshotUnchanged ==
  [][pc = "ready" => (/\ outputs' = outputs
                      /\ total' = total
                      /\ levels' = levels
                      /\ root' = root
                      /\ indexTxid' = indexTxid
                      /\ indexAddress' = indexAddress)]_vars

\* A signClaim query raised on a snapshot with outputs, a tree and indices.
C11_Witness ==
  /\ pc = "ready"
  /\ last.op = "signClaim"
  /\ last.ret.kind = "raise"
  /\ Len(outputs) = 3
  /\ Len(levels) = 3
  /\ DOMAIN indexTxid # {}
  /\ DOMAIN indexAddress # {}

\* C14: for every output sequence, grouped by txid or not, lookupOutput's
\* assert never fails and a result that is not None is the index of an
\* output with the queried txid and vout; without grouping a lookup can
\* only miss an output.
C14_LookupOutputNeverWrong ==
  last.op = "lookupOutput" =>
    /\ last.ret # AssertionFailed
    /\ last.ret = None \/ last.ret \in Matching(last.txid, last.vout)

\* The outputs are not grouped by txid and the lookup of an output of the
\* snapshot returned None.
C14_Witness ==
  /\ last.op = "lookupOutput"
  /\ ~ Grouped
  /\ UniqueOutpoints
  /\ Matching(last.txid, last.vout) # {}
  /\ last.ret = None

\* The levels of the sequential computation over the same outputs.
SequentialLevels == buildMerkle(outputs)

\* C13: the tasks of a level are handed out only when every task of the
\* level before has completed, and for every pool size and every
\* interleaving of the workers the levels and the root are those of the
\* sequential computation over the same outputs.
C13_PoolBarrierAndDeterminism ==
  /\ pool.stage = "pairs" =>
       /\ Len(levels) >= 1
       /\ \A k \in 1..Len(levels) : \A i \in 1..Len(levels[k]) : levels[k][i] # None
       /\ Len(pool.tasks) = Len(levels[Len(levels)]) \div 2
       /\ \A j \in 1..Len(pool.tasks) :
            pool.tasks[j].arg = <<levels[Len(levels)][2 * j - 1],
                                  levels[Len(levels)][2 * j]>>
  /\ pool.stage \in {"loop", "pairs", "closed"} =>
       /\ Len(levels) <= Len(SequentialLevels)
       /\ \A k \in 1..Len(levels) : levels[k] = SequentialLevels[k]
  /\ pool.stage = "closed" =>
       /\ levels = SequentialLevels
       /\ root = SequentialLevels[Len(SequentialLevels)][1]

\* Two workers hash the pairs of four leaves; the second pair is done while
\* the first is still being hashed.
C13_Witness ==
  /\ pool.stage = "pairs"
  /\ pool.nproc = 2
  /\ Len(outputs) = 3
  /\ Len(levels) = 1
  /\ Len(pool.tasks) = 2
  /\ pool.tasks[1].st = "running"
  /\ pool.tasks[2].st = "done"

\* The number of outputs in the batches before the call that raised.
CheckedBeforeFailure == (app.ret.calls - 1) * BATCH_SIZE

\* C12: when the contract call of one batch fails, the claimed status of the
\* outputs of the batches that completed before it is available to the
\* caller of batch_check_claimed.
C12_CompletedBatchesRemainAvailable ==
  (app.op = "batch_check_claimed" /\ app.ret.kind = "raise") =>
    \A n \in 1..CheckedBeforeFailure :
      utxoKey(app.output_list[n]) \in DOMAIN app.claim_status

\* C15: for an address with between one and MAX_OUTPUTS outputs the POST
\* handler completes without an error and lists one claim per index of
\* lookupAddress, in the order of the indices.
C15_AirdropPostListsClaims ==
  (/\ app.op = "airdrop_claims"
   /\ Len(lookupAddress(indexAddress, app.address)) >= 1
   /\ Len(lookupAddress(indexAddress, app.address)) <= MAX_OUTPUTS) =>
    LET output_indices == lookupAddress(indexAddress, app.address)
    IN /\ app.response.kind = "page"
       /\ Len(app.response.claims) = Len(output_indices)
       /\ \A n \in 1..Len(output_indices) :
            /\ app.response.claims[n].txid = outputs[output_indices[n] + 1].txid
            /\ app.response.claims[n].vout = outputs[output_indices[n] + 1].vout
            /\ app.response.claims[n].amount = outputs[output_indices[n] + 1].amount

====
